---- MODULE Spec2Model ----
(***************************************************************************)
(* Thumbnail composition pipeline of app/backend/services/pillow_utils.py  *)
(* (class ThumbnailComposer).  Sizes are pixels, images are represented by *)
(* their size, texts by their sequence of characters.                      *)
(***************************************************************************)
EXTENDS Integers, Sequences, FiniteSets, TLC

VARIABLES
    background,   \* size of the source image handed to _resize_background_to_canvas
    resized,      \* outcome of _resize_background_to_canvas (NotCalled before the call)
    font_face,    \* environment: the face _get_font finds ("truetype" or "default")
    unloadable,   \* environment: the sizes at which _get_font yields None
    text,         \* the text argument (the title), a sequence of characters
    max_width,    \* the max_width argument
    wrap_font,    \* the font argument of a direct _wrap_text_to_fit call
    wrapped,      \* outcome of that _wrap_text_to_fit call
    layout,       \* outcome of the latest _find_optimal_font_size call
    earlier,      \* outcome of the _find_optimal_font_size call before it
    stroke,       \* the running _draw_text_with_effects call (its loop position, its draws)
    pc,           \* position of the compose_thumbnail call
    logo_image,   \* the logo_image argument of compose_thumbnail
    jpeg_scale,   \* environment: bytes the encoder emits per unit of quality for this canvas
    locals,       \* compose_thumbnail: line_height, text_start_y, current_y, next line
    draw_log,     \* compose_thumbnail: the draws made on the canvas, in order
    logo,         \* compose_thumbnail: outcome of _process_logo
    jpeg_data,    \* compose_thumbnail: outcome of _optimize_jpeg_size
    files,        \* the files of settings.data_dir
    self,         \* the attributes of the ThumbnailComposer instance
    previous,     \* the previous compose_thumbnail call on this composer: inputs, outcome
    response,     \* outcome of the generate_thumbnail request (NoRequest: a direct call)
    clock,        \* the wall clock, in ticks
    requests,     \* the concurrent generate_thumbnail requests: position, request_id
    generation,   \* the generate_background call: topic, position, attempts, result
    route,        \* the generate_thumbnail request: its position and its logo upload
    listing,      \* the list_thumbnails request: its limit and its response
    served        \* the serve_thumbnail request: its filename and its response

resizeVars == <<background, resized>>
fontEnv == <<font_face, unloadable>>
wrapVars == <<wrap_font, wrapped>>
layoutVars == <<layout, earlier>>
composeVars == <<pc, logo_image, jpeg_scale, locals, draw_log, logo, jpeg_data, files>>
webVars == <<generation, route, listing, served>>
serviceVars == <<previous, response, clock, requests, webVars>>
vars == <<background, resized, font_face, unloadable, text, max_width,
          wrap_font, wrapped, layout, earlier, stroke, pc, logo_image,
          jpeg_scale, locals, draw_log, logo, jpeg_data, files,
          self, previous, response, clock, requests,
          generation, route, listing, served>>

---------------------------------------------------------------------------
(* ThumbnailComposer.__init__ *)

canvas_width == 1280
canvas_height == 720
text_area_width == (canvas_width * 45) \div 100      \* int(self.canvas_width * 0.45)
text_margin_left == 40
text_margin_top == 60
logo_max_width == (canvas_width * 18) \div 100       \* int(self.canvas_width * 0.18)
logo_margin == 30

\* The attributes __init__ leaves on the instance (self.settings apart)
(* Settings: the defaults of the fields compose_thumbnail reads *)
max_file_size_mb == 2
jpeg_quality_start == 92
jpeg_quality_min == 76
max_file_size_bytes == max_file_size_mb * 1024 * 1024

SettingsFields ==
    [jpeg_quality_start |-> jpeg_quality_start, jpeg_quality_min |-> jpeg_quality_min,
     max_file_size_bytes |-> max_file_size_bytes]

\* The attributes __init__ leaves on the instance
ComposerFields ==
    [settings |-> SettingsFields,
     canvas_width |-> canvas_width, canvas_height |-> canvas_height,
     text_area_width |-> text_area_width, text_margin_left |-> text_margin_left,
     text_margin_top |-> text_margin_top, logo_max_width |-> logo_max_width,
     logo_margin |-> logo_margin]

---------------------------------------------------------------------------
(* Bounds of the checked inputs *)

MaxSmallDim == 24
MaxWrapLen == 6      \* longest text handed to _wrap_text_to_fit directly
MaxTitleLen == 4     \* longest text handed to _find_optimal_font_size directly
MaxStroke == 6       \* widest stroke handed to _draw_text_with_effects directly
LongWords == 28      \* words of the long title
LongWordLen == 17    \* letters in each word of the long title
MaxLogoDim == 24     \* every logo side up to this is checked
NumRequests == 2     \* concurrent generate requests
MaxClock == 3        \* ticks the clock runs
TicksPerSecond == 2  \* clock ticks in one second of the timestamp
MaxLowQuality == 6   \* every quality setting up to this is checked
MaxTopicLen == 4     \* characters of a topic
MaxLimit == 3        \* every limit from -MaxLimit to MaxLimit is requested
MaxMtime == 2        \* modification times of the listed files

\* Source sizes: every small size, and the sizes image back ends really deliver.
Dims == (1 .. MaxSmallDim) \cup {512, 720, 864, 1000, 1024, 1080, 1280, 1536, 1792, 1920, 2560}

NotCalled == [status |-> "not_called"]

\* No concurrent requests are modelled.
NoRequests == <<>>

\* Characters: a narrow letter, a wide letter, and the blank.
Glyphs == {"i", "W", " "}

TextsUpTo(n) == UNION {[1 .. k -> Glyphs] : k \in 0 .. n}

WrapWidths == {20, 50, 120, 576}
WrapSizes == {20, 70, 120}
LayoutWidths == {20, 60, 576}
LayoutHeights == {10, 30, 100, 300, 600}

\* A title of LongWords words of LongWordLen wide letters each.
LongTitle ==
    [i \in 1 .. LongWords * (LongWordLen + 1) |->
        IF i % (LongWordLen + 1) = 0 THEN " " ELSE "W"]

\* A title of 34 characters: five words of six wide letters
StackedTitle == [i \in 1 .. 34 |-> IF i % 7 = 0 THEN " " ELSE "W"]

ComposeTitles == {<<>>, <<" ">>, <<"W">>, <<"i", " ", "W">>, StackedTitle, LongTitle}
ComposeBackgrounds ==
    {[width |-> 1536, height |-> 864], [width |-> 1024, height |-> 1024],
     [width |-> 1, height |-> 512]}
NoLogo == [kind |-> "none"]
LogoImage(w, h) == [kind |-> "image", width |-> w, height |-> h]
LogoImages ==
    {NoLogo, [kind |-> "garbage"], LogoImage(200, 200), LogoImage(460, 100),
     LogoImage(1, 49), LogoImage(1000, 2)}
JpegScales == {1000, 24000, 27500, 30000}

\* A thumbnail of the same name left by an earlier request, or none
OldFileSets == {{}, {[name |-> <<"20261105_174500", "_thumbnail.jpg">>, size |-> 1]}}

\* Inputs of the calls made in sequence on one composer
ReentrantBackgrounds == {[width |-> 1536, height |-> 864], [width |-> 1, height |-> 512]}
ReentrantTitles == {<<>>, <<"W">>, <<"i", " ", "W">>}
ReentrantLogos == {NoLogo, LogoImage(200, 200)}
ReentrantScales == {1000, 30000}

\* Encoders of the concurrent requests
RequestScales == {1000, 24000}

\* Logo uploads: none, or a file with its declared type, its length in bytes
\* and what its bytes decode to
Upload(ct, n, d) == [content_type |-> ct, length |-> n, data |-> d]
Uploads ==
    {[kind |-> "None"]} \cup
    {Upload(ct, n, d) : ct \in {"image/png", "image/jpeg", "image/gif"},
                        n \in {1, 2 * 1024 * 1024, 2 * 1024 * 1024 + 1},
                        d \in {[kind |-> "garbage"], LogoImage(200, 200)}}

\* Form fields of the requests: a topic has at least 3 characters, a title 5
RouteTopics == {<<"i", "i", "i">>, <<" ", "i", " ">>}
RouteTitles == {<<"W", "i", " ", "W", "i">>, LongTitle}
RouteScales == {1000, 30000}

\* Query values of limit, and values of settings.max_thumbnails_list (1 to 200)
Limits == (-MaxLimit .. MaxLimit) \cup {20, 50, 51}
MaxThumbnailsLists == {1, 2, 50}

\* Directory contents: thumbnails and another file, each with a modification
\* time.  A data directory that does not exist has no files.
ListedNames ==
    {<<"a", "_thumbnail.jpg">>, <<"b", "_thumbnail.jpg">>, <<"c", "_thumbnail.jpg">>,
     <<"notes", ".txt">>}
Directories ==
    UNION {{{[name |-> n, size |-> 1000, mtime |-> mt[n]] : n \in names} :
               mt \in [names -> 1 .. MaxMtime]} : names \in SUBSET ListedNames}

\* URLs requested besides the one a response names
OtherUrls ==
    {<<"/", "api", "/", "files", "/", "..", "_thumbnail.jpg">>,
     <<"/", "api", "/", "files", "/", "a", "\\", "_thumbnail.jpg">>,
     <<"/", "api", "/", "files", "/", "notes", ".txt">>,
     <<"/", "api", "/", "files", "/", "missing", "_thumbnail.jpg">>,
     <<"/", "api", "/", "files", "/", "data", "/", "a", "_thumbnail.jpg">>}

\* Inputs of the requests whose thumbnail is fetched afterwards
ServeBackgrounds == {[width |-> 1536, height |-> 864]}
ServeLogos == {NoLogo, LogoImage(200, 200)}

\* Topics: every text of blanks and letters up to MaxTopicLen characters
Topics == UNION {[1 .. k -> {"i", " "}] : k \in 0 .. MaxTopicLen}

\* Values of settings.openai_image_size
ConfiguredSizes == {"1536x864", "1024x1024", "1792x1024"}

\* What a download yields: an error, bytes that are no image, or an image
Downloads ==
    {[kind |-> "error"], [kind |-> "garbage"],
     [kind |-> "image", width |-> 511, height |-> 512],
     [kind |-> "image", width |-> 512, height |-> 511],
     [kind |-> "image", width |-> 512, height |-> 512],
     [kind |-> "image", width |-> 1536, height |-> 864]}

\* Settings the validators accept: 1 <= jpeg_quality_min <= jpeg_quality_start <= 100
Qualities == (1 .. MaxLowQuality) \cup {72, 76, 77, 80, 92, 100}
QualitySettings ==
    {[jpeg_quality_start |-> a, jpeg_quality_min |-> b,
      max_file_size_bytes |-> 2 * 1024 * 1024] :
        <<a, b>> \in {q \in Qualities \X Qualities : q[2] <= q[1]}}
DirectJpegScales == {1000, 24000, 25000, 27500, 30000, 300000, 3000000}

\* Logo sizes: every small size, the clamps and their neighbours, large sides.
LogoDims == (1 .. MaxLogoDim) \cup {47, 49, 108, 109, 200, 230, 231, 460, 1000}

---------------------------------------------------------------------------
(* _resize_background_to_canvas *)

Abs(x) == IF x < 0 THEN -x ELSE x

\* abs(bg_ratio - target_ratio) < 0.01 with bg_ratio = w / h and target_ratio =
\* 1280 / 720: |w/h - 1280/720| < 1/100, cleared of denominators.
RatiosClose(w, h) ==
    100 * Abs(w * canvas_height - h * canvas_width) < h * canvas_height

\* bg_ratio > target_ratio
IsWider(w, h) == w * canvas_height > h * canvas_width

\* int(bg_height * target_ratio)
WiderNewWidth(w, h) == (h * canvas_width) \div canvas_height

\* int(bg_width / target_ratio)
TallerNewHeight(w, h) == (w * canvas_height) \div canvas_width

CropOffsetEdge(scaled, target) == 0

\* left = (new_width - self.canvas_width) // 2 (same expression for top)
CropOffset(scaled, target) == (scaled - target) \div 2

\* Image.resize: the C resampler refuses a size with a side below 1.
PilResizeRaises(new_width, new_height) == new_width < 1 \/ new_height < 1

\* Image.crop: the result has the size of the box, whatever part of it lies
\* outside the image (that part is filled with zero pixels).
PilCropSize(box) == [width |-> box[3] - box[1], height |-> box[4] - box[2]]

WiderBox(new_width) ==
    LET left == CropOffset(new_width, canvas_width)
    IN  <<left, 0, left + canvas_width, canvas_height>>

TallerBox(new_height) ==
    LET top == CropOffset(new_height, canvas_height)
    IN  <<0, top, canvas_width, top + canvas_height>>

Raised(branch, nw, nh) ==
    [status |-> "raised", branch |-> branch, new_width |-> nw, new_height |-> nh]

Returned(branch, nw, nh, box) ==
    [status |-> "returned", branch |-> branch, new_width |-> nw, new_height |-> nh,
     box |-> box, size |-> PilCropSize(box)]

ResizeBackgroundToCanvas(w, h) ==
    IF RatiosClose(w, h)
    THEN Returned("resize", canvas_width, canvas_height,
                  <<0, 0, canvas_width, canvas_height>>)
    ELSE IF IsWider(w, h)
    THEN LET nw == WiderNewWidth(w, h)
         IN  IF PilResizeRaises(nw, canvas_height)
             THEN Raised("wider", nw, canvas_height)
             ELSE Returned("wider", nw, canvas_height, WiderBox(nw))
    ELSE LET nh == TallerNewHeight(w, h)
         IN  IF PilResizeRaises(canvas_width, nh)
             THEN Raised("taller", canvas_width, nh)
             ELSE Returned("taller", canvas_width, nh, TallerBox(nh))

ResizeNearEqual ==
    /\ resized = NotCalled
    /\ RatiosClose(background.width, background.height)
    /\ resized' = ResizeBackgroundToCanvas(background.width, background.height)
    /\ UNCHANGED <<background, fontEnv, text, max_width, wrapVars, layoutVars, stroke, composeVars,
                   self, serviceVars>>

ResizeWider ==
    /\ resized = NotCalled
    /\ ~RatiosClose(background.width, background.height)
    /\ IsWider(background.width, background.height)
    /\ resized' = ResizeBackgroundToCanvas(background.width, background.height)
    /\ UNCHANGED <<background, fontEnv, text, max_width, wrapVars, layoutVars, stroke, composeVars,
                   self, serviceVars>>

ResizeTaller ==
    /\ resized = NotCalled
    /\ ~RatiosClose(background.width, background.height)
    /\ ~IsWider(background.width, background.height)
    /\ resized' = ResizeBackgroundToCanvas(background.width, background.height)
    /\ UNCHANGED <<background, fontEnv, text, max_width, wrapVars, layoutVars, stroke, composeVars,
                   self, serviceVars>>

---------------------------------------------------------------------------
(* _get_font and _calculate_text_size *)

None == [kind |-> "None"]

\* _find_optimal_font_size: min_size = 20, max_size = 120
min_size == 20
max_size == 120
Sizes == min_size .. max_size

FontFaces == {"truetype", "default"}
UnloadableFamilies == {{}, {70}, Sizes}

\* For the direct calls also a loader that fails at the lower half of the sizes
LayoutUnloadable == UnloadableFamilies \cup {min_size .. 70}

AlwaysLoads(size) == [kind |-> font_face, size |-> size]

\* _get_font: the first candidate ImageFont.truetype loads at the size asked
\* for; ImageFont.load_default() ignores the size; None when nothing loads.
GetFont(size) ==
    IF size \in unloadable THEN None ELSE [kind |-> font_face, size |-> size]

\* Advance of one character, in tenths of the em for a scalable face; the
\* default face has one fixed cell whatever size was asked for.
GlyphUnits(c) == IF c = "W" THEN 9 ELSE 3

GlyphAdvance(font, c) ==
    IF font.kind = "truetype" THEN (GlyphUnits(c) * font.size) \div 10 ELSE 6

\* Sum of the advances of the characters of str that are in chars: each
\* character's advance times the number of its occurrences.
RECURSIVE SumAdvance(_, _, _)
SumAdvance(font, str, chars) ==
    IF chars = {} THEN 0
    ELSE LET c == CHOOSE x \in chars : TRUE
             count == Cardinality({i \in 1 .. Len(str) : str[i] = c})
         IN  count * GlyphAdvance(font, c) + SumAdvance(font, str, chars \ {c})

\* _calculate_text_size(text, font)[0]: width of the bounding box
TextWidth(str, font) == SumAdvance(font, str, {str[i] : i \in 1 .. Len(str)})

\* _calculate_text_size("Ay", font)[1]: cap height plus descender
AyHeight(font) ==
    IF font.kind = "truetype" THEN (font.size * 93) \div 100 ELSE 11

---------------------------------------------------------------------------
(* _wrap_text_to_fit *)

IsSpace(c) == c = " "

\* First index from i on whose character is (is not) a blank; Len(str) + 1
\* when there is none.
FirstIndex(str, i, blank) ==
    CHOOSE j \in i .. Len(str) + 1 :
        /\ j = Len(str) + 1 \/ IsSpace(str[j]) = blank
        /\ \A k \in i .. j - 1 : IsSpace(str[k]) # blank

\* str.split(): the maximal runs of non-blank characters, in order
RECURSIVE SplitFrom(_, _)
SplitFrom(str, i) ==
    LET first == FirstIndex(str, i, FALSE)
        after == FirstIndex(str, first, TRUE)
    IN  IF first > Len(str) THEN <<>>
        ELSE <<SubSeq(str, first, after - 1)>> \o SplitFrom(str, after)

Split(str) == SplitFrom(str, 1)

\* test_line = current_line + (" " + word if current_line else word)
TestLine(current_line, word) ==
    IF current_line # <<>> THEN current_line \o <<" ">> \o word ELSE word

NeverWraps(test_width, width) == TRUE

\* if test_width <= max_width
FitsWidth(test_width, width) == test_width <= width

DropsLongWord(lines, word) == lines

\* "Single word is too long - force it and break": lines.append(word)
ForceWord(lines, word) == Append(lines, word)

RECURSIVE WrapLoop(_, _, _, _, _, _)
WrapLoop(words, i, lines, current_line, font, width) ==
    IF i > Len(words)
    THEN IF current_line # <<>> THEN Append(lines, current_line) ELSE lines
    ELSE LET word == words[i]
             test_line == TestLine(current_line, word)
         IN  IF FitsWidth(TextWidth(test_line, font), width)
             THEN WrapLoop(words, i + 1, lines, test_line, font, width)
             ELSE IF current_line # <<>>
             THEN WrapLoop(words, i + 1, Append(lines, current_line), word, font, width)
             ELSE WrapLoop(words, i + 1, ForceWord(lines, word), <<>>, font, width)

WrapTextToFit(str, font, width) == WrapLoop(Split(str), 1, <<>>, <<>>, font, width)

WrapCall ==
    /\ wrapped = NotCalled
    /\ wrap_font # None
    /\ wrapped' = [status |-> "returned", lines |-> WrapTextToFit(text, wrap_font, max_width)]
    /\ UNCHANGED <<resizeVars, fontEnv, text, max_width, wrap_font, layoutVars, stroke, composeVars,
                   self, serviceVars>>

---------------------------------------------------------------------------
(* _find_optimal_font_size *)

GrowsOnOverflow(count, line_height, height) == 6 * count * line_height >= 5 * height

\* total_height = len(lines) * line_height * 1.2; if total_height <= max_height
FitsHeight(count, line_height, height) == 6 * count * line_height <= 5 * height

\* "Too big - try smaller" (also taken when the font did not load)
TrySmaller(st, size) == [st EXCEPT !.max_size = size - 1, !.probes = @ + 1]

KeepsStaleLines(st, size, font, lines) ==
    [st EXCEPT !.best_font = font, !.best_size = size,
               !.min_size = size + 1, !.probes = @ + 1]

\* "This size fits - try larger"
TryLarger(st, size, font, lines) ==
    [st EXCEPT !.best_font = font, !.best_lines = lines, !.best_size = size,
               !.min_size = size + 1, !.probes = @ + 1]

RECURSIVE SearchLoop(_, _, _, _)
SearchLoop(str, width, height, st) ==
    IF st.min_size > st.max_size THEN st
    ELSE LET size == (st.min_size + st.max_size) \div 2
             font == GetFont(size)
         IN  IF font = None
             THEN SearchLoop(str, width, height, TrySmaller(st, size))
             ELSE LET lines == WrapTextToFit(str, font, width)
                  IN  IF FitsHeight(Len(lines), AyHeight(font), height)
                      THEN SearchLoop(str, width, height, TryLarger(st, size, font, lines))
                      ELSE SearchLoop(str, width, height, TrySmaller(st, size))

FindOptimalFontSize(str, width, height) ==
    LET st == SearchLoop(str, width, height,
                  [min_size |-> min_size, max_size |-> max_size, best_font |-> None,
                   best_lines |-> <<>>, best_size |-> min_size, probes |-> 0])
    IN  [status |-> "returned", max_height |-> height, font |-> st.best_font,
         lines |-> st.best_lines, size |-> st.best_size, probes |-> st.probes]

\* A direct call; a behaviour makes at most two, on the same text and width.
FindCall ==
    /\ earlier = NotCalled
    /\ \E height \in LayoutHeights :
          layout' = FindOptimalFontSize(text, max_width, height)
    /\ earlier' = layout
    /\ UNCHANGED <<resizeVars, fontEnv, text, max_width, wrapVars, stroke, composeVars,
                   self, serviceVars>>

---------------------------------------------------------------------------
(* _draw_text_with_effects *)

\* stroke_width: int = 6
default_stroke_width == 6

Idle == [status |-> "idle"]

\* The call on entry: the two range() loops start at -stroke_width.
DrawCall(x, y, line, font, stroke_width) ==
    [status |-> "running", x |-> x, y |-> y, line |-> line, font |-> font,
     stroke_width |-> stroke_width, dx |-> -stroke_width, dy |-> -stroke_width,
     draws |-> <<>>]

InStrokeLoop(c) == c.status = "running" /\ c.dx <= c.stroke_width

SkipsAxes(dx, dy) == dx = 0 \/ dy = 0

\* if dx == 0 and dy == 0: continue
SkipOffset(dx, dy) == dx = 0 /\ dy = 0

\* the next (dx, dy) of the nested range(-stroke_width, stroke_width + 1) loops
NextOffset(c) ==
    IF c.dy < c.stroke_width
    THEN [c EXCEPT !.dy = @ + 1]
    ELSE [c EXCEPT !.dx = @ + 1, !.dy = -c.stroke_width]

\* draw.text((x + dx, y + dy), text, font=font, fill=stroke_color)
StrokeText(c) ==
    [op |-> "text", x |-> c.x + c.dx, y |-> c.y + c.dy, line |-> c.line,
     font |-> c.font, fill |-> "stroke_color"]

\* draw.text((x, y), text, font=font, fill=fill_color)
FillText(c) ==
    [op |-> "text", x |-> c.x, y |-> c.y, line |-> c.line,
     font |-> c.font, fill |-> "fill_color"]

\* One step of the call: an iteration of the inner loop, or the final fill.
DrawStep(c) ==
    IF InStrokeLoop(c)
    THEN IF SkipOffset(c.dx, c.dy)
         THEN NextOffset(c)
         ELSE NextOffset([c EXCEPT !.draws = Append(@, StrokeText(c))])
    ELSE [c EXCEPT !.draws = Append(@, FillText(c)), !.status = "returned"]

\* The steps of one pass of the inner loop: those made while dx stays the same
RECURSIVE RunColumn(_, _)
RunColumn(c, dx) ==
    IF c.status = "returned" \/ c.dx # dx THEN c ELSE RunColumn(DrawStep(c), dx)

\* The whole call: DrawStep repeated until it has returned
RECURSIVE RunDraw(_)
RunDraw(c) ==
    IF c.status = "returned" THEN c
    ELSE IF InStrokeLoop(c) THEN RunDraw(RunColumn(c, c.dx))
    ELSE RunDraw(DrawStep(c))

DrawStroke ==
    /\ InStrokeLoop(stroke)
    /\ ~SkipOffset(stroke.dx, stroke.dy)
    /\ stroke' = DrawStep(stroke)
    /\ UNCHANGED <<resizeVars, fontEnv, text, max_width, wrapVars, layoutVars, composeVars,
                   self, serviceVars>>

SkipCentre ==
    /\ InStrokeLoop(stroke)
    /\ SkipOffset(stroke.dx, stroke.dy)
    /\ stroke' = DrawStep(stroke)
    /\ UNCHANGED <<resizeVars, fontEnv, text, max_width, wrapVars, layoutVars, composeVars,
                   self, serviceVars>>

DrawFill ==
    /\ stroke.status = "running"
    /\ ~InStrokeLoop(stroke)
    /\ stroke' = DrawStep(stroke)
    /\ UNCHANGED <<resizeVars, fontEnv, text, max_width, wrapVars, layoutVars, composeVars,
                   self, serviceVars>>

---------------------------------------------------------------------------
(* _add_accent_bar *)

bar_height == 8
bar_width == 200
bar_offset == 25     \* bar_y = text_y - 25

AccentBar(text_y) ==
    LET bar_x == text_margin_left
        bar_y == text_y - bar_offset
    IN  [op |-> "rectangle", box |-> <<bar_x, bar_y, bar_x + bar_width, bar_y + bar_height>>]

---------------------------------------------------------------------------
(* _process_logo and _add_logo_overlay *)

\* The logo sizes w x h, among the checked ones, at which the double
\* new_width / (w / h) or new_height * (w / h) lands just below the exact
\* integer quotient, so that int() yields one less.
DoubleFallsShort(w, h) ==
    <<w, h>> \in
        {<<1, 49>>, <<2, 49>>, <<3, 47>>, <<4, 49>>, <<6, 47>>, <<8, 49>>, <<9, 7>>,
         <<12, 47>>, <<13, 23>>, <<15, 22>>, <<15, 26>>, <<16, 49>>, <<18, 7>>,
         <<18, 14>>, <<21, 19>>, <<23, 15>>, <<23, 21>>, <<24, 47>>, <<25, 11>>,
         <<25, 22>>, <<47, 23>>, <<108, 13>>, <<108, 23>>, <<108, 26>>, <<108, 47>>,
         <<109, 25>>, <<200, 11>>, <<200, 22>>}

\* int(x) of a double quotient whose exact value is num / den
IntOfQuotient(num, den, w, h) ==
    IF num % den = 0 /\ DoubleFallsShort(w, h) THEN num \div den - 1 ELSE num \div den

\* max_height = int(self.canvas_height * 0.15)
logo_max_height == (canvas_height * 15) \div 100

Min(a, b) == IF a <= b THEN a ELSE b

LogoNewSize(w, h) ==
    IF w > h
    THEN LET new_width == Min(logo_max_width, w)
         IN  [width |-> new_width, height |-> IntOfQuotient(new_width * h, w, w, h)]
    ELSE LET new_height == Min(logo_max_height, h)
         IN  [width |-> IntOfQuotient(new_height * w, h, w, h), height |-> new_height]

KeepsEmptyLogo(data) ==
    IF data.kind # "image" THEN None ELSE LogoNewSize(data.width, data.height)

\* Any exception (Image.open on bytes that are no image, Image.resize to a
\* side below 1) is caught and None returned.
ProcessLogo(data) ==
    IF data.kind # "image" THEN None
    ELSE LET new == LogoNewSize(data.width, data.height)
         IN  IF PilResizeRaises(new.width, new.height) THEN None ELSE new

PastesAtCorner(lg) ==
    [op |-> "paste", x |-> canvas_width - lg.width, y |-> canvas_height - lg.height,
     width |-> lg.width, height |-> lg.height]

LogoOverlay(lg) ==
    [op |-> "paste", x |-> canvas_width - lg.width - logo_margin,
     y |-> canvas_height - lg.height - logo_margin,
     width |-> lg.width, height |-> lg.height]

\* A direct call logo = self._process_logo(logo_data)
ProcessLogoCall ==
    /\ pc = "idle"
    /\ logo = NotCalled
    /\ logo' = ProcessLogo(logo_image)
    /\ UNCHANGED <<resizeVars, fontEnv, text, max_width, wrapVars, layoutVars, stroke,
                   pc, logo_image, jpeg_scale, locals, draw_log, jpeg_data, files,
                   self, serviceVars>>

\* A direct call self._add_logo_overlay(canvas, logo) with the processed logo
AddLogoOverlayCall ==
    /\ pc = "idle"
    /\ logo # NotCalled /\ logo # None
    /\ draw_log = <<>>
    /\ draw_log' = Append(draw_log, LogoOverlay(logo))
    /\ UNCHANGED <<resizeVars, fontEnv, text, max_width, wrapVars, layoutVars, stroke,
                   pc, logo_image, jpeg_scale, locals, logo, jpeg_data, files,
                   self, serviceVars>>

---------------------------------------------------------------------------
(* _optimize_jpeg_size *)

\* len(jpeg_data) of the canvas saved at this quality
EncodedSize(quality) == jpeg_scale * quality

StepsByOne(quality) == quality - 1

\* quality -= 5
ReduceQuality(quality) == quality - 5

\* while quality >= min_quality: ...; tried lists the qualities encoded so far
RECURSIVE OptimizeLoop(_, _, _)
OptimizeLoop(quality, last, max_size_bytes) ==
    IF quality >= self.settings.jpeg_quality_min
    THEN LET data == [status |-> "returned", quality |-> quality,
                      size |-> EncodedSize(quality), encodes |-> last.encodes + 1,
                      tried |-> Append(last.tried, quality)]
         IN  IF data.size <= max_size_bytes THEN data
             ELSE OptimizeLoop(ReduceQuality(quality), data, max_size_bytes)
    ELSE last

OptimizeJpegSize(max_size_bytes) ==
    OptimizeLoop(self.settings.jpeg_quality_start,
                 [status |-> "unbound", encodes |-> 0, tried |-> <<>>], max_size_bytes)

\* A direct call self._optimize_jpeg_size(canvas, self.settings.max_file_size_bytes)
OptimizeCall ==
    /\ pc = "idle"
    /\ jpeg_data = NotCalled
    /\ jpeg_data' = OptimizeJpegSize(self.settings.max_file_size_bytes)
    /\ UNCHANGED <<resizeVars, fontEnv, text, max_width, wrapVars, layoutVars, stroke,
                   pc, logo_image, jpeg_scale, locals, draw_log, logo, files,
                   self, serviceVars>>

---------------------------------------------------------------------------
(* compose_thumbnail *)

text_area_height == canvas_height - text_margin_top * 2

request_id == "20261105_174500"

\* f"{timestamp}_thumbnail.jpg" with timestamp = request_id
Filename == <<request_id, "_thumbnail.jpg">>

IgnoresLayoutFailure(font, lines) == FALSE

\* if not font or not text_lines: raise ValueError
LayoutFailed(font, lines) == font = None \/ lines = <<>>

LeavesPartialFile(fs) == fs \cup {[name |-> Filename, size |-> 0]}

\* except Exception as e: logger.error(...); raise -- the files after it
ExceptHandler(fs) == fs

ShrinksTextArea(s, lt) == [s EXCEPT !.text_area_width = lt.size]

\* The instance after _find_optimal_font_size: the search assigns no attribute
ComposerAfterLayout(s, lt) == s

\* Step 1: canvas = self._resize_background_to_canvas(background_image)
ComposePrepareCanvas ==
    /\ pc = "start"
    /\ resized' = ResizeBackgroundToCanvas(background.width, background.height)
    /\ pc' = IF resized'.status = "raised" THEN "raised" ELSE "layout"
    /\ files' = IF resized'.status = "raised" THEN ExceptHandler(files) ELSE files
    /\ UNCHANGED <<background, fontEnv, text, max_width, wrapVars, layoutVars, stroke,
                   logo_image, jpeg_scale, locals, draw_log, logo, jpeg_data,
                   self, serviceVars>>

\* Step 2: the text layout, and the start of step 3 up to text_start_y
ComposeLayout ==
    /\ pc = "layout"
    /\ LET area_height == self.canvas_height - self.text_margin_top * 2
       IN  /\ layout' = FindOptimalFontSize(text, self.text_area_width, area_height)
           /\ IF LayoutFailed(layout'.font, layout'.lines)
              THEN pc' = "raised" /\ UNCHANGED locals /\ files' = ExceptHandler(files)
              ELSE LET line_height == (layout'.size * 12) \div 10
                       total_text_height == Len(layout'.lines) * line_height
                       text_start_y ==
                           self.text_margin_top + (area_height - total_text_height) \div 2
                   IN  /\ locals' = [line_height |-> line_height,
                                     text_start_y |-> text_start_y,
                                     current_y |-> text_start_y, line_no |-> 1]
                       /\ pc' = "accent"
                       /\ files' = files
    /\ self' = ComposerAfterLayout(self, layout')
    /\ UNCHANGED <<resizeVars, fontEnv, text, max_width, wrapVars, earlier, stroke,
                   logo_image, jpeg_scale, draw_log, logo, jpeg_data, serviceVars>>

\* self._add_accent_bar(draw, text_start_y, accent_color)
ComposeAccentBar ==
    /\ pc = "accent"
    /\ draw_log' = Append(draw_log, AccentBar(locals.text_start_y))
    /\ pc' = "text"
    /\ UNCHANGED <<resizeVars, fontEnv, text, max_width, wrapVars, layoutVars, stroke,
                   logo_image, jpeg_scale, locals, logo, jpeg_data, files,
                   self, serviceVars>>

StopsAfterFirstLine(line_no, count) == "logo"

\* for line in text_lines: the loop goes on to step 4 after the last line
AfterLine(line_no, count) == IF line_no = count THEN "logo" ELSE "text"

\* One iteration of "for line in text_lines": the whole _draw_text_with_effects
\* call with the default stroke width, then current_y += line_height.
ComposeDrawLine ==
    /\ pc = "text"
    /\ LET call == RunDraw(DrawCall(text_margin_left, locals.current_y,
                                    layout.lines[locals.line_no], layout.font,
                                    default_stroke_width))
       IN  draw_log' = draw_log \o call.draws
    /\ locals' = [locals EXCEPT !.current_y = @ + locals.line_height, !.line_no = @ + 1]
    /\ pc' = AfterLine(locals.line_no, Len(layout.lines))
    /\ UNCHANGED <<resizeVars, fontEnv, text, max_width, wrapVars, layoutVars, stroke,
                   logo_image, jpeg_scale, logo, jpeg_data, files,
                   self, serviceVars>>

\* Step 4: if logo_image: logo = self._process_logo(logo_image); if logo: paste
ComposeLogo ==
    /\ pc = "logo"
    /\ IF logo_image = NoLogo
       THEN UNCHANGED <<logo, draw_log>>
       ELSE /\ logo' = ProcessLogo(logo_image)
            /\ draw_log' = IF logo' = None THEN draw_log
                           ELSE Append(draw_log, LogoOverlay(logo'))
    /\ pc' = "encode"
    /\ UNCHANGED <<resizeVars, fontEnv, text, max_width, wrapVars, layoutVars, stroke,
                   logo_image, jpeg_scale, locals, jpeg_data, files,
                   self, serviceVars>>

\* Step 6: jpeg_data = self._optimize_jpeg_size(canvas, max_file_size_bytes)
ComposeEncode ==
    /\ pc = "encode"
    /\ jpeg_data' = OptimizeJpegSize(self.settings.max_file_size_bytes)
    /\ pc' = "write"
    /\ UNCHANGED <<resizeVars, fontEnv, text, max_width, wrapVars, layoutVars, stroke,
                   logo_image, jpeg_scale, locals, draw_log, logo, files,
                   self, serviceVars>>

\* with open(file_path, 'wb') as f: f.write(jpeg_data); return file_path
ComposeWrite ==
    /\ pc = "write"
    /\ files' = {f \in files : f.name # Filename}
                    \cup {[name |-> Filename, size |-> jpeg_data.size]}
    /\ pc' = "returned"
    /\ UNCHANGED <<resizeVars, fontEnv, text, max_width, wrapVars, layoutVars, stroke,
                   logo_image, jpeg_scale, locals, draw_log, logo, jpeg_data,
                   self, serviceVars>>

NoRequest == [status |-> "no_request"]

\* The inputs of the running call, and what it has produced
ComposeInputs == <<background, text, logo_image, jpeg_scale>>
ComposeOutcome ==
    [pc |-> pc, resized |-> resized, layout |-> layout, draw_log |-> draw_log,
     logo |-> logo, jpeg_data |-> jpeg_data]

\* The next compose_thumbnail call on the same long-lived instance, made
\* directly (no request): a new canvas and new locals, the same self.
ComposeAgain ==
    /\ response = NoRequest
    /\ pc \in {"returned", "raised"}
    /\ previous = NotCalled
    /\ previous' = [inputs |-> ComposeInputs, outcome |-> ComposeOutcome]
    /\ background' \in ReentrantBackgrounds
    /\ text' \in ReentrantTitles
    /\ logo_image' \in ReentrantLogos
    /\ jpeg_scale' \in ReentrantScales
    /\ resized' = NotCalled /\ layout' = NotCalled /\ locals' = NotCalled
    /\ draw_log' = <<>> /\ logo' = NotCalled /\ jpeg_data' = NotCalled
    /\ pc' = "start"
    /\ UNCHANGED <<fontEnv, max_width, wrapVars, earlier, stroke, files, self,
                   response, clock, requests, webVars>>

---------------------------------------------------------------------------
(* services/openai_client.py: OpenAIImageService.generate_background *)

\* No generate_thumbnail request is running.
RouteIdle == [pc |-> "idle"]

\* settings.openai_image_size
openai_image_size == "1536x864"

GenerationIdle == [pc |-> "idle"]

\* str.strip(): the blanks at both ends removed
RECURSIVE StripLeft(_)
StripLeft(t) == IF t = <<>> \/ ~IsSpace(Head(t)) THEN t ELSE StripLeft(Tail(t))

RECURSIVE StripRight(_)
StripRight(t) ==
    IF t = <<>> \/ ~IsSpace(t[Len(t)]) THEN t ELSE StripRight(SubSeq(t, 1, Len(t) - 1))

Strip(t) == StripRight(StripLeft(t))

RawTooShort(topic) == Len(topic) < 3

\* if not topic or len(topic.strip()) < 3: raise ValueError
TopicTooShort(topic) == topic = <<>> \/ Len(Strip(topic)) < 3

\* size_attempts = [self.settings.openai_image_size, "1536x864", "1024x1024"]
SizeAttempts(configured) == <<configured, "1536x864", "1024x1024">>

\* The call up to its first await: the topic check, then the first turn of
\* the loop over size_attempts.
BackgroundCall(topic, configured) ==
    IF TopicTooShort(topic)
    THEN [pc |-> "raised", topic |-> topic, configured |-> configured, attempt |-> 0,
          attempts |-> <<>>, result |-> [status |-> "raised", error |-> "ValueError"]]
    ELSE [pc |-> "request", topic |-> topic, configured |-> configured, attempt |-> 1,
          attempts |-> <<>>, result |-> NotCalled]

\* except Exception as e: last_error = e; sleep and continue unless this was
\* the last size; after the loop raise Exception(error_msg).
AttemptFailed(g, why) ==
    LET logged == [g EXCEPT !.attempts[Len(g.attempts)].outcome = why]
    IN  IF g.attempt < Len(SizeAttempts(g.configured))
        THEN [logged EXCEPT !.pc = "request", !.attempt = g.attempt + 1]
        ELSE [logged EXCEPT !.pc = "raised",
                            !.result = [status |-> "raised", error |-> "Exception"]]

\* _validate_and_convert_image returns: the bytes decode and neither side is
\* below 512.
ImageValid(data) ==
    data.kind = "image" /\ ~(data.width < 512 \/ data.height < 512)

\* A direct call of generate_background
GenerateBackgroundCall ==
    /\ generation.pc = "idle"
    /\ route.pc = "idle"
    /\ \E topic \in Topics, configured \in ConfiguredSizes :
           generation' = BackgroundCall(topic, configured)
    /\ UNCHANGED <<resizeVars, fontEnv, text, max_width, wrapVars, layoutVars, stroke,
                   composeVars, self, previous, response, clock, requests,
                   route, listing, served>>

\* response_data = await self._make_api_request(prompt, size);
\* image_url = response_data["data"][0]["url"]: an HTTP error, a timeout, a
\* reply without a URL, or a URL.
ApiRequest ==
    /\ generation.pc = "request"
    /\ \E reply \in {"error", "malformed", "url"} :
           LET size == SizeAttempts(generation.configured)[generation.attempt]
               sent == [generation EXCEPT !.attempts =
                            Append(@, [size |-> size, outcome |-> "pending",
                                       data |-> None])]
           IN  generation' = IF reply = "url" THEN [sent EXCEPT !.pc = "download"]
                             ELSE AttemptFailed(sent, "request_failed")
    /\ UNCHANGED <<resizeVars, fontEnv, text, max_width, wrapVars, layoutVars, stroke,
                   composeVars, self, previous, response, clock, requests,
                   route, listing, served>>

\* image_data = await self._download_image(image_url);
\* image = self._validate_and_convert_image(image_data); return image
DownloadImage ==
    /\ generation.pc = "download"
    /\ \E data \in Downloads :
           generation' =
               IF data.kind = "error" THEN AttemptFailed(generation, "download_failed")
               ELSE IF ~ImageValid(data) THEN AttemptFailed(generation, "invalid")
               ELSE [generation EXCEPT
                        !.pc = "returned",
                        !.attempts[Len(generation.attempts)].outcome = "ok",
                        !.attempts[Len(generation.attempts)].data = data,
                        !.result = [status |-> "ok", width |-> data.width,
                                    height |-> data.height]]
    /\ UNCHANGED <<resizeVars, fontEnv, text, max_width, wrapVars, layoutVars, stroke,
                   composeVars, self, previous, response, clock, requests,
                   route, listing, served>>

---------------------------------------------------------------------------
(* routes/thumbnails.py: generate_thumbnail, and models.py: ThumbnailResponse *)

\* str.endswith and the "in" test, on names given as sequences of parts
EndsWith(name, suffix) == name # <<>> /\ name[Len(name)] = suffix
Contains(name, part) == \E i \in 1 .. Len(name) : name[i] = part

\* The path under which main.py includes the router, up to the file name
ApiPrefix == <<"/", "api", "/", "files", "/">>

UrlWithDirectory(name) == ApiPrefix \o <<"data", "/">> \o name

\* url=f"/api/files/{thumbnail_path.name}"
UrlOf(name) == ApiPrefix \o name

\* ThumbnailResponse.validate_size_limit raises ValueError
SizeLimitExceeded(v) == v > 2 * 1024 * 1024

\* file_stats = thumbnail_path.stat(); return ThumbnailResponse(...); a
\* validation error of the response is caught by "except Exception" and
\* turned into HTTPException(500).
GenerateRespond ==
    /\ response = NotCalled
    /\ pc = "returned"
    /\ LET st_size == (CHOOSE f \in files : f.name = Filename).size
       IN  response' =
               IF SizeLimitExceeded(st_size)
               THEN [status |-> 500,
                     detail |-> "An unexpected error occurred during thumbnail generation"]
               ELSE [status |-> 200, filename |-> Filename, width |-> 1280,
                     height |-> 720, size_bytes |-> st_size, url |-> UrlOf(Filename)]
    /\ UNCHANGED <<resizeVars, fontEnv, text, max_width, wrapVars, layoutVars, stroke,
                   composeVars, self, previous, clock, requests, webVars>>

\* except Exception around compose_thumbnail: HTTPException(500)
GenerateComposeFailed ==
    /\ response = NotCalled
    /\ pc = "raised"
    /\ response' = [status |-> 500,
                    detail |-> "Failed to compose thumbnail. Please try again."]
    /\ UNCHANGED <<resizeVars, fontEnv, text, max_width, wrapVars, layoutVars, stroke,
                   composeVars, self, previous, clock, requests, webVars>>

NeverTooLarge(length) == FALSE

\* len(logo_content) > 2 * 1024 * 1024
LogoTooLarge(length) == length > 2 * 1024 * 1024

\* "if logo:" with its two checks, up to "logo_image = logo_content"
RouteValidateLogo ==
    /\ route.pc = "logo"
    /\ IF route.logo # None /\ route.logo.content_type \notin {"image/png", "image/jpeg"}
       THEN /\ response' = [status |-> 400, detail |-> "Logo must be PNG or JPEG format"]
            /\ route' = [route EXCEPT !.pc = "done"]
            /\ UNCHANGED logo_image
       ELSE IF route.logo # None /\ LogoTooLarge(route.logo.length)
       THEN /\ response' = [status |-> 400, detail |-> "Logo file size must be <= 2MB"]
            /\ route' = [route EXCEPT !.pc = "done"]
            /\ UNCHANGED logo_image
       ELSE /\ logo_image' = IF route.logo = None THEN NoLogo ELSE route.logo.data
            /\ route' = [route EXCEPT !.pc = "background"]
            /\ UNCHANGED response
    /\ UNCHANGED <<resizeVars, fontEnv, text, max_width, wrapVars, layoutVars, stroke,
                   pc, jpeg_scale, locals, draw_log, logo, jpeg_data, files,
                   self, previous, clock, requests, generation, listing, served>>

\* Step 1: background_image = await openai_service.generate_background(topic)
RouteRequestBackground ==
    /\ route.pc = "background"
    /\ generation.pc = "idle"
    /\ generation' = BackgroundCall(route.topic, openai_image_size)
    /\ UNCHANGED <<resizeVars, fontEnv, text, max_width, wrapVars, layoutVars, stroke,
                   composeVars, self, previous, response, clock, requests,
                   route, listing, served>>

\* except Exception around generate_background: HTTPException(502)
RouteBackgroundFailed ==
    /\ route.pc = "background"
    /\ generation.pc = "raised"
    /\ response' = [status |-> 502,
                    detail |-> "Failed to generate background image. Please try again."]
    /\ route' = [route EXCEPT !.pc = "done"]
    /\ UNCHANGED <<resizeVars, fontEnv, text, max_width, wrapVars, layoutVars, stroke,
                   composeVars, self, previous, clock, requests,
                   generation, listing, served>>

\* Step 2: thumbnail_path = await composer.compose_thumbnail(background_image, ...)
RouteCompose ==
    /\ route.pc = "background"
    /\ generation.pc = "returned"
    /\ background' = [width |-> generation.result.width,
                      height |-> generation.result.height]
    /\ pc' = "start"
    /\ route' = [route EXCEPT !.pc = "compose"]
    /\ UNCHANGED <<resized, fontEnv, text, max_width, wrapVars, layoutVars, stroke,
                   logo_image, jpeg_scale, locals, draw_log, logo, jpeg_data, files,
                   self, previous, response, clock, requests,
                   generation, listing, served>>

\* data_dir.glob("*_thumbnail.jpg")
GlobThumbnails(fs) == {f \in fs : EndsWith(f.name, "_thumbnail.jpg")}

\* thumbnail_files.sort(key=st_mtime, reverse=True) applied to the glob result,
\* whose order the file system chooses: every order with the newest first
SortedNewestFirst(fs) ==
    {order \in [1 .. Cardinality(fs) -> fs] :
        /\ \A i, j \in DOMAIN order : i # j => order[i] # order[j]
        /\ \A i, j \in DOMAIN order : i < j => order[i].mtime >= order[j].mtime}

\* thumbnail_files[:limit]: a negative limit counts from the end
SliceTo(seq, limit) ==
    IF limit >= 0
    THEN SubSeq(seq, 1, IF limit < Len(seq) THEN limit ELSE Len(seq))
    ELSE SubSeq(seq, 1, IF Len(seq) + limit > 0 THEN Len(seq) + limit ELSE 0)

ListItem(f) == [filename |-> f.name, size_bytes |-> f.size, created_at |-> f.mtime]

\* list_thumbnails(limit) under settings.max_thumbnails_list = most
ListThumbnails ==
    /\ listing = NotCalled
    /\ \E limit \in Limits, most \in MaxThumbnailsLists,
          exists \in (IF files = {} THEN BOOLEAN ELSE {TRUE}) :
           LET clamped == IF limit < most THEN limit ELSE most
           IN  IF ~exists
               THEN listing' = [limit |-> limit, max_thumbnails_list |-> most,
                                thumbnails |-> <<>>, total_count |-> 0]
               ELSE \E thumbnail_files \in SortedNewestFirst(GlobThumbnails(files)) :
                        LET shown == SliceTo(thumbnail_files, clamped)
                        IN  listing' =
                                [limit |-> limit, max_thumbnails_list |-> most,
                                 thumbnails |-> [i \in 1 .. Len(shown) |-> ListItem(shown[i])],
                                 total_count |-> Len(thumbnail_files)]
    /\ UNCHANGED <<resizeVars, fontEnv, text, max_width, wrapVars, layoutVars, stroke,
                   composeVars, self, previous, response, clock, requests,
                   generation, route, served>>

\* @router.get("/files/{filename}") under the prefix /api: the path parameter
\* is what follows the prefix when it is not empty and holds no "/"; None when
\* the path matches no route.
PathParam(url) ==
    IF /\ Len(url) > Len(ApiPrefix)
       /\ SubSeq(url, 1, Len(ApiPrefix)) = ApiPrefix
       /\ ~Contains(SubSeq(url, Len(ApiPrefix) + 1, Len(url)), "/")
    THEN SubSeq(url, Len(ApiPrefix) + 1, Len(url))
    ELSE None

\* serve_thumbnail(filename) on the files fs of settings.data_dir
ServeResponse(filename, fs) ==
    IF \/ filename = <<>> \/ Contains(filename, "..")
       \/ Contains(filename, "/") \/ Contains(filename, "\\")
    THEN [status |-> 400, detail |-> "Invalid filename"]
    ELSE IF ~EndsWith(filename, "_thumbnail.jpg")
    THEN [status |-> 400, detail |-> "File must be a thumbnail image"]
    ELSE IF ~(\E f \in fs : f.name = filename)
    THEN [status |-> 404, detail |-> "Thumbnail not found"]
    ELSE [status |-> 200, file |-> CHOOSE f \in fs : f.name = filename]

\* GET url after the generate_thumbnail request was answered: the URL of the
\* response, or another one
ServeThumbnail ==
    /\ served = NotCalled
    /\ response # NotCalled /\ response # NoRequest
    /\ \E url \in OtherUrls \cup (IF response.status = 200 THEN {response.url} ELSE {}) :
           served' = [url |-> url,
                      response |-> IF PathParam(url) = None
                                   THEN [status |-> 404, detail |-> "Not Found"]
                                   ELSE ServeResponse(PathParam(url), files)]
    /\ UNCHANGED <<resizeVars, fontEnv, text, max_width, wrapVars, layoutVars, stroke,
                   composeVars, self, previous, response, clock, requests,
                   generation, route, listing>>

\* strftime("%Y%m%d_%H%M%S") of datetime.now(): the clock cut to whole seconds
Stamp(t) == t \div TicksPerSecond

FilenameOf(id) == <<id, "_thumbnail.jpg">>

RequestIdle == [pc |-> "idle", request_id |-> None]

\* request_id = datetime.now().strftime("%Y%m%d_%H%M%S")
RequestStart(r) ==
    /\ requests[r].pc = "idle"
    /\ requests' = [requests EXCEPT ![r] = [pc |-> "composing",
                                            request_id |-> Stamp(clock)]]
    /\ UNCHANGED <<resizeVars, fontEnv, text, max_width, wrapVars, layoutVars, stroke,
                   composeVars, self, previous, response, clock, webVars>>

\* compose_thumbnail of request r up to its file write:
\* open(data_dir / f"{request_id}_thumbnail.jpg", 'wb'), f.write(jpeg_data)
RequestWrite(r) ==
    /\ requests[r].pc = "composing"
    /\ \E sc \in RequestScales :
           LET name == FilenameOf(requests[r].request_id)
           IN  files' = {f \in files : f.name # name}
                           \cup {[name |-> name, size |-> sc * jpeg_quality_start]}
    /\ requests' = [requests EXCEPT ![r].pc = "done"]
    /\ UNCHANGED <<resizeVars, fontEnv, text, max_width, wrapVars, layoutVars, stroke,
                   pc, logo_image, jpeg_scale, locals, draw_log, logo, jpeg_data,
                   self, previous, response, clock, webVars>>

\* Time passes.
Tick ==
    /\ requests # NoRequests
    /\ clock < MaxClock
    /\ clock' = clock + 1
    /\ UNCHANGED <<resizeVars, fontEnv, text, max_width, wrapVars, layoutVars, stroke,
                   composeVars, self, previous, response, requests, webVars>>

---------------------------------------------------------------------------
(* Specifications *)

ResizeIdle == background = [width |-> 1, height |-> 1] /\ resized = NotCalled
WrapIdle == wrap_font = None /\ wrapped = NotCalled
LayoutIdle == layout = NotCalled /\ earlier = NotCalled
TextIdle == text = <<>> /\ max_width = 0
FontEnvIdle == font_face = "truetype" /\ unloadable = {}
DrawIdle == stroke = Idle
ComposeIdle ==
    /\ pc = "idle" /\ logo_image = [kind |-> "none"] /\ jpeg_scale = 0
    /\ locals = NotCalled /\ draw_log = <<>> /\ logo = NotCalled
    /\ jpeg_data = NotCalled /\ files = {}

WebIdle ==
    /\ generation = GenerationIdle /\ route = RouteIdle
    /\ listing = NotCalled /\ served = NotCalled

ServiceIdle ==
    /\ self = ComposerFields /\ previous = NotCalled /\ response = NoRequest
    /\ clock = 0 /\ requests = NoRequests
    /\ WebIdle

InitResize ==
    /\ background \in [width : Dims, height : Dims]
    /\ resized = NotCalled
    /\ FontEnvIdle /\ TextIdle /\ WrapIdle /\ LayoutIdle /\ DrawIdle /\ ComposeIdle
    /\ ServiceIdle

NextResize == ResizeNearEqual \/ ResizeWider \/ ResizeTaller

SpecResize == InitResize /\ [][NextResize]_vars

InitWrap ==
    /\ text \in TextsUpTo(MaxWrapLen)
    /\ max_width \in WrapWidths
    /\ wrap_font \in [kind : FontFaces, size : WrapSizes]
    /\ wrapped = NotCalled
    /\ ResizeIdle /\ FontEnvIdle /\ LayoutIdle /\ DrawIdle /\ ComposeIdle
    /\ ServiceIdle

NextWrap == WrapCall

SpecWrap == InitWrap /\ [][NextWrap]_vars

InitLayout ==
    /\ text \in TextsUpTo(MaxTitleLen)
    /\ max_width \in LayoutWidths
    /\ font_face \in FontFaces
    /\ unloadable \in LayoutUnloadable
    /\ ResizeIdle /\ WrapIdle /\ LayoutIdle /\ DrawIdle /\ ComposeIdle
    /\ ServiceIdle

NextLayout == FindCall

SpecLayout == InitLayout /\ [][NextLayout]_vars

DrawYs == {60, 300}

InitDraw ==
    /\ stroke \in {DrawCall(text_margin_left, y, <<"W">>,
                             [kind |-> "truetype", size |-> max_size], w) :
                        y \in DrawYs, w \in 0 .. MaxStroke}
    /\ ResizeIdle /\ FontEnvIdle /\ TextIdle /\ WrapIdle /\ LayoutIdle /\ ComposeIdle
    /\ ServiceIdle

NextDraw == DrawStroke \/ SkipCentre \/ DrawFill

SpecDraw == InitDraw /\ [][NextDraw]_vars

InitLogo ==
    /\ logo_image \in {LogoImage(w, h) : w \in LogoDims, h \in LogoDims}
                        \cup {[kind |-> "garbage"]}
    /\ pc = "idle" /\ jpeg_scale = 0
    /\ locals = NotCalled /\ draw_log = <<>> /\ logo = NotCalled
    /\ jpeg_data = NotCalled /\ files = {}
    /\ ResizeIdle /\ FontEnvIdle /\ TextIdle /\ WrapIdle /\ LayoutIdle /\ DrawIdle
    /\ ServiceIdle

NextLogo == ProcessLogoCall \/ AddLogoOverlayCall

SpecLogo == InitLogo /\ [][NextLogo]_vars

Init ==
    /\ background \in ComposeBackgrounds
    /\ resized = NotCalled
    /\ font_face \in FontFaces
    /\ unloadable \in UnloadableFamilies
    /\ text \in ComposeTitles
    /\ max_width = text_area_width
    /\ logo_image \in LogoImages
    /\ jpeg_scale \in JpegScales
    /\ pc = "start"
    /\ locals = NotCalled /\ draw_log = <<>> /\ logo = NotCalled
    /\ jpeg_data = NotCalled
    /\ files \in OldFileSets
    /\ self = ComposerFields /\ previous = NotCalled /\ response = NotCalled
    /\ clock = 0 /\ requests = NoRequests
    /\ WebIdle
    /\ WrapIdle /\ LayoutIdle /\ DrawIdle

Next ==
    \/ ComposePrepareCanvas
    \/ ComposeLayout
    \/ ComposeAccentBar
    \/ ComposeDrawLine
    \/ ComposeLogo
    \/ ComposeEncode
    \/ ComposeWrite
    \/ GenerateRespond
    \/ GenerateComposeFailed

Spec == Init /\ [][Next]_vars

InitJpeg ==
    /\ self \in {[ComposerFields EXCEPT !.settings = st] : st \in QualitySettings}
    /\ jpeg_scale \in DirectJpegScales
    /\ pc = "idle" /\ logo_image = NoLogo
    /\ locals = NotCalled /\ draw_log = <<>> /\ logo = NotCalled
    /\ jpeg_data = NotCalled /\ files = {}
    /\ previous = NotCalled /\ response = NoRequest /\ clock = 0 /\ requests = NoRequests
    /\ WebIdle
    /\ ResizeIdle /\ FontEnvIdle /\ TextIdle /\ WrapIdle /\ LayoutIdle /\ DrawIdle

NextJpeg == OptimizeCall

SpecJpeg == InitJpeg /\ [][NextJpeg]_vars

InitReentrant ==
    /\ background \in ReentrantBackgrounds
    /\ resized = NotCalled
    /\ font_face \in FontFaces
    /\ unloadable \in UnloadableFamilies
    /\ text \in ReentrantTitles
    /\ max_width = text_area_width
    /\ logo_image \in ReentrantLogos
    /\ jpeg_scale \in ReentrantScales
    /\ pc = "start"
    /\ locals = NotCalled /\ draw_log = <<>> /\ logo = NotCalled
    /\ jpeg_data = NotCalled /\ files = {}
    /\ self = ComposerFields /\ previous = NotCalled /\ response = NoRequest
    /\ clock = 0 /\ requests = NoRequests
    /\ WebIdle
    /\ WrapIdle /\ LayoutIdle /\ DrawIdle

NextReentrant ==
    \/ ComposePrepareCanvas
    \/ ComposeLayout
    \/ ComposeAccentBar
    \/ ComposeDrawLine
    \/ ComposeLogo
    \/ ComposeEncode
    \/ ComposeWrite
    \/ ComposeAgain

SpecReentrant == InitReentrant /\ [][NextReentrant]_vars

InitRequests ==
    /\ requests = [r \in 1 .. NumRequests |-> RequestIdle]
    /\ clock = 0
    /\ self = ComposerFields /\ previous = NotCalled /\ response = NoRequest
    /\ WebIdle
    /\ ResizeIdle /\ FontEnvIdle /\ TextIdle /\ WrapIdle /\ LayoutIdle /\ DrawIdle
    /\ ComposeIdle

NextRequests ==
    \/ Tick
    \/ \E r \in 1 .. NumRequests : RequestStart(r)
    \/ \E r \in 1 .. NumRequests : RequestWrite(r)

SpecRequests == InitRequests /\ [][NextRequests]_vars

InitBackground ==
    /\ self = ComposerFields /\ previous = NotCalled /\ response = NoRequest
    /\ clock = 0 /\ requests = NoRequests
    /\ WebIdle
    /\ ResizeIdle /\ FontEnvIdle /\ TextIdle /\ WrapIdle /\ LayoutIdle /\ DrawIdle
    /\ ComposeIdle

NextBackground == GenerateBackgroundCall \/ ApiRequest \/ DownloadImage

SpecBackground == InitBackground /\ [][NextBackground]_vars

InitServe ==
    /\ background \in ServeBackgrounds
    /\ resized = NotCalled
    /\ text \in RouteTitles
    /\ max_width = text_area_width
    /\ logo_image \in ServeLogos
    /\ jpeg_scale \in JpegScales
    /\ pc = "start"
    /\ locals = NotCalled /\ draw_log = <<>> /\ logo = NotCalled
    /\ jpeg_data = NotCalled
    /\ files \in OldFileSets
    /\ self = ComposerFields /\ previous = NotCalled /\ response = NotCalled
    /\ clock = 0 /\ requests = NoRequests
    /\ WebIdle
    /\ FontEnvIdle /\ WrapIdle /\ LayoutIdle /\ DrawIdle

NextServe ==
    \/ ComposePrepareCanvas
    \/ ComposeLayout
    \/ ComposeAccentBar
    \/ ComposeDrawLine
    \/ ComposeLogo
    \/ ComposeEncode
    \/ ComposeWrite
    \/ GenerateRespond
    \/ GenerateComposeFailed
    \/ ServeThumbnail

SpecServe == InitServe /\ [][NextServe]_vars

InitList ==
    /\ files \in Directories
    /\ pc = "idle" /\ logo_image = NoLogo /\ jpeg_scale = 0
    /\ locals = NotCalled /\ draw_log = <<>> /\ logo = NotCalled
    /\ jpeg_data = NotCalled
    /\ self = ComposerFields /\ previous = NotCalled /\ response = NoRequest
    /\ clock = 0 /\ requests = NoRequests
    /\ WebIdle
    /\ ResizeIdle /\ FontEnvIdle /\ TextIdle /\ WrapIdle /\ LayoutIdle /\ DrawIdle

NextList == ListThumbnails

SpecList == InitList /\ [][NextList]_vars

InitRoute ==
    /\ route \in {[pc |-> "logo", logo |-> u, topic |-> t] :
                      u \in Uploads, t \in RouteTopics}
    /\ text \in RouteTitles
    /\ max_width = text_area_width
    /\ jpeg_scale \in RouteScales
    /\ pc = "idle" /\ logo_image = NoLogo
    /\ locals = NotCalled /\ draw_log = <<>> /\ logo = NotCalled
    /\ jpeg_data = NotCalled /\ files = {}
    /\ self = ComposerFields /\ previous = NotCalled /\ response = NotCalled
    /\ clock = 0 /\ requests = NoRequests
    /\ generation = GenerationIdle /\ listing = NotCalled /\ served = NotCalled
    /\ ResizeIdle /\ FontEnvIdle /\ WrapIdle /\ LayoutIdle /\ DrawIdle

NextRoute ==
    \/ RouteValidateLogo
    \/ RouteRequestBackground
    \/ ApiRequest
    \/ DownloadImage
    \/ RouteBackgroundFailed
    \/ RouteCompose
    \/ ComposePrepareCanvas
    \/ ComposeLayout
    \/ ComposeAccentBar
    \/ ComposeDrawLine
    \/ ComposeLogo
    \/ ComposeEncode
    \/ ComposeWrite
    \/ GenerateRespond
    \/ GenerateComposeFailed

SpecRoute == InitRoute /\ [][NextRoute]_vars

---------------------------------------------------------------------------
(* Canvas normalisation: properties *)

ResizeCalled == resized.status \in {"returned", "raised"}

CoverBranch == ResizeCalled /\ resized.branch \in {"wider", "taller"}

\* C1: for every source of positive width and height the call returns an image
\* of exactly 1280x720, in all three branches.
C1_AlwaysCanvasSize ==
    ResizeCalled =>
        /\ resized.status = "returned"
        /\ resized.size = [width |-> canvas_width, height |-> canvas_height]

\* C2: when the ratios differ by at least the tolerance the scaled image covers
\* the target box and the crop window lies inside it, so no output pixel is
\* padding.
C2_ScaledCoversCanvas ==
    (CoverBranch /\ resized.status = "returned") =>
        /\ resized.new_width >= canvas_width
        /\ resized.new_height >= canvas_height
        /\ resized.box[1] >= 0 /\ resized.box[2] >= 0
        /\ resized.box[3] <= resized.new_width
        /\ resized.box[4] <= resized.new_height

\* C3: the cover scaling uses one uniform factor: (floor(w * 720 / h), 720) in
\* the wider branch and (1280, floor(h * 1280 / w)) in the taller branch.
C3_UniformScale ==
    (CoverBranch /\ resized.status = "returned") =>
        IF resized.branch = "wider"
        THEN /\ resized.new_width =
                    (background.width * canvas_height) \div background.height
             /\ resized.new_height = canvas_height
        ELSE /\ resized.new_width = canvas_width
             /\ resized.new_height =
                    (background.height * canvas_width) \div background.width

\* Columns (rows) of the scaled image dropped before and after the crop window.
RemovedBefore == IF resized.branch = "wider" THEN resized.box[1] ELSE resized.box[2]
RemovedAfter ==
    IF resized.branch = "wider"
    THEN resized.new_width - resized.box[3]
    ELSE resized.new_height - resized.box[4]
ScaledExcess ==
    IF resized.branch = "wider"
    THEN resized.new_width - canvas_width
    ELSE resized.new_height - canvas_height

\* C4: the crop is centred: the left (top) offset is floor(excess / 2) and the
\* amounts removed on the two sides differ by at most 1.
C4_CropCentred ==
    (CoverBranch /\ resized.status = "returned") =>
        /\ 2 * RemovedBefore <= ScaledExcess
        /\ ScaledExcess <= 2 * RemovedBefore + 1
        /\ RemovedBefore + RemovedAfter = ScaledExcess
        /\ Abs(RemovedBefore - RemovedAfter) <= 1

\* C4 witness: a wider source whose scaled width exceeds the canvas by an odd
\* number of columns, so the two sides differ by exactly one.
C4_Witness ==
    /\ CoverBranch /\ resized.status = "returned"
    /\ resized.branch = "wider"
    /\ ScaledExcess > 0
    /\ RemovedAfter = RemovedBefore + 1

---------------------------------------------------------------------------
(* Word wrap: properties *)

RECURSIVE JoinWords(_, _)
JoinWords(words, i) ==
    IF i > Len(words) THEN <<>>
    ELSE IF i = 1 THEN words[1] \o JoinWords(words, 2)
    ELSE <<" ">> \o words[i] \o JoinWords(words, i + 1)

RECURSIVE WordsOfLines(_, _)
WordsOfLines(lines, k) ==
    IF k > Len(lines) THEN <<>> ELSE Split(lines[k]) \o WordsOfLines(lines, k + 1)

WrapReturned == wrapped.status = "returned"

\* C5: no word is split: every line is the single-space join of whole input
\* words, and the lines in order hold exactly the input's word sequence.
C5_WholeWords ==
    WrapReturned =>
        /\ \A k \in DOMAIN wrapped.lines :
              /\ Split(wrapped.lines[k]) # <<>>
              /\ wrapped.lines[k] = JoinWords(Split(wrapped.lines[k]), 1)
        /\ WordsOfLines(wrapped.lines, 1) = Split(text)

\* C5 witness: a text with a doubled or leading blank wrapped into several
\* lines, one of them holding two words.
C5_Witness ==
    /\ WrapReturned
    /\ Len(wrapped.lines) >= 2
    /\ \E k \in DOMAIN wrapped.lines : Len(Split(wrapped.lines[k])) >= 2
    /\ text # JoinWords(Split(text), 1)

\* C6: every line measures at most max_width unless it is one word that alone
\* exceeds max_width; such a word stands alone; and a line is closed only when
\* the next word appended to it would exceed max_width.
C6_LinesFit ==
    WrapReturned =>
        \A k \in DOMAIN wrapped.lines :
            LET line == wrapped.lines[k]
                words == Split(line)
            IN  /\ \/ TextWidth(line, wrap_font) <= max_width
                   \/ Len(words) = 1 /\ TextWidth(words[1], wrap_font) > max_width
                /\ \A j \in DOMAIN words :
                      TextWidth(words[j], wrap_font) > max_width => Len(words) = 1
                /\ k < Len(wrapped.lines) =>
                      TextWidth(line \o <<" ">> \o Split(wrapped.lines[k + 1])[1],
                                wrap_font) > max_width

\* C6 witness: a two-word line that fits next to a one-word line that does not.
C6_Witness ==
    /\ WrapReturned
    /\ \E k \in DOMAIN wrapped.lines :
          /\ Len(Split(wrapped.lines[k])) >= 2
          /\ TextWidth(wrapped.lines[k], wrap_font) <= max_width
    /\ \E k \in DOMAIN wrapped.lines :
          /\ Len(Split(wrapped.lines[k])) = 1
          /\ TextWidth(wrapped.lines[k], wrap_font) > max_width

---------------------------------------------------------------------------
(* Font size search: properties *)

LayoutReturned == layout.status = "returned"

AllLoad == unloadable \cap Sizes = {}

\* Five times the block height (line count x line height x 1.2) at size s.
BlockHeight5(s) ==
    LET font == [kind |-> font_face, size |-> s]
    IN  6 * Len(WrapTextToFit(text, font, max_width)) * AyHeight(font)

Feasible(s) == BlockHeight5(s) <= 5 * layout.max_height

BlockHeightMonotone == \A s \in Sizes \ {max_size} : BlockHeight5(s) <= BlockHeight5(s + 1)

ReturnsLargestFeasible ==
    /\ layout.size \in Sizes
    /\ Feasible(layout.size)
    /\ \A s \in Sizes : s > layout.size => ~Feasible(s)
    /\ layout.font = [kind |-> font_face, size |-> layout.size]
    /\ layout.lines = WrapTextToFit(text, layout.font, max_width)

\* C7: when the block height is non-decreasing in the size (and some size
\* fits), the search returns the largest size in [20,120] whose block height
\* is <= max_height, with the font and the lines wrapped at that size.
C7_LargestFeasible ==
    (LayoutReturned /\ AllLoad) =>
        \/ ReturnsLargestFeasible
        \/ ~(\E s \in Sizes : Feasible(s))
        \/ ~BlockHeightMonotone

\* C7 witness: a search that ends strictly inside the range on a text wrapped
\* into several lines.
C7_Witness ==
    /\ LayoutReturned /\ AllLoad
    /\ min_size < layout.size /\ layout.size < max_size
    /\ Len(layout.lines) >= 2
    /\ layout.probes >= 6

\* C8: for the same text and max_width, a call with a smaller or equal
\* max_height never chooses a larger size.
C8_MonotoneInHeight ==
    (LayoutReturned /\ earlier.status = "returned"
        /\ earlier.max_height <= layout.max_height) => earlier.size <= layout.size

\* C8 witness: two calls on the same text where the larger height chose a
\* strictly larger size.
C8_Witness ==
    /\ LayoutReturned /\ earlier.status = "returned"
    /\ earlier.max_height < layout.max_height
    /\ earlier.font # None
    /\ earlier.size < layout.size

---------------------------------------------------------------------------
(* Stroke rendering: properties *)

Offsets(w) == (-w .. w) \X (-w .. w)

StrokeDrawsOf(c) == {i \in DOMAIN c.draws : c.draws[i].fill = "stroke_color"}
FillDrawsOf(c) == {i \in DOMAIN c.draws : c.draws[i].fill = "fill_color"}

\* C10: a call with stroke width w issues exactly (2w+1)^2 - 1 stroke-colour
\* draws, one at each offset of [-w,w] x [-w,w] other than (0,0), and then
\* exactly one fill-colour draw at the true position, which is its last draw.
C10_StrokeThenFill ==
    /\ stroke.status \in {"running", "returned"} =>
          /\ \A i \in FillDrawsOf(stroke) :
                i = Len(stroke.draws) /\ stroke.status = "returned"
          /\ \A i, j \in StrokeDrawsOf(stroke) :
                (stroke.draws[i].x = stroke.draws[j].x
                    /\ stroke.draws[i].y = stroke.draws[j].y) => i = j
    /\ stroke.status = "returned" =>
          LET w == stroke.stroke_width
              n == Len(stroke.draws)
          IN  /\ Cardinality(StrokeDrawsOf(stroke)) = (2 * w + 1) * (2 * w + 1) - 1
              /\ {<<stroke.draws[i].x - stroke.x, stroke.draws[i].y - stroke.y>> :
                      i \in StrokeDrawsOf(stroke)} = Offsets(w) \ {<<0, 0>>}
              /\ FillDrawsOf(stroke) = {n}
              /\ stroke.draws[n].x = stroke.x /\ stroke.draws[n].y = stroke.y
              /\ \A i \in DOMAIN stroke.draws :
                    stroke.draws[i].line = stroke.line /\ stroke.draws[i].font = stroke.font

\* C10 witness: a finished call with stroke width 6: 168 stroke draws, 1 fill.
C10_Witness ==
    /\ stroke.status = "returned"
    /\ stroke.stroke_width = default_stroke_width
    /\ Cardinality(StrokeDrawsOf(stroke)) = 168
    /\ Len(stroke.draws) = 169

---------------------------------------------------------------------------
(* Layout overflow in compose_thumbnail: properties *)

\* Even the smallest size overflows the text area height.
MinSizeOverflows ==
    LET font == [kind |-> font_face, size |-> min_size]
    IN  6 * Len(WrapTextToFit(text, font, text_area_width)) * AyHeight(font)
            > 5 * text_area_height

---------------------------------------------------------------------------
(* Logo processing and placement: properties *)

LogoResized == logo_image.kind = "image" /\ logo # NotCalled /\ logo # None

\* C11: the resized logo keeps the aspect ratio to within one pixel:
\* |h' - w' * h / w| < 1 when w > h, and |w' - h' * w / h| < 1 otherwise.
C11_AspectWithinOnePixel ==
    LogoResized =>
        IF logo_image.width > logo_image.height
        THEN Abs(logo.height * logo_image.width - logo.width * logo_image.height)
                < logo_image.width
        ELSE Abs(logo.width * logo_image.height - logo.height * logo_image.width)
                < logo_image.height

WithinClamp(w, h) == IF w > h THEN w <= logo_max_width ELSE h <= logo_max_height

\* C12: the resized logo is never larger than the original in either
\* direction, and a logo whose governing side is within the clamp keeps
\* exactly its original width and height.
C12_NeverUpscales ==
    LogoResized =>
        /\ logo.width <= logo_image.width
        /\ logo.height <= logo_image.height
        /\ WithinClamp(logo_image.width, logo_image.height) =>
                logo = [width |-> logo_image.width, height |-> logo_image.height]

Pastes == {i \in 1 .. Len(draw_log) : draw_log[i].op = "paste"}

\* C13: every pasted logo has its right edge 30 px from the canvas right edge,
\* its bottom edge 30 px from the canvas bottom edge, and lies inside the
\* 1280x720 canvas.
C13_LogoBottomRight ==
    \A i \in Pastes :
        /\ draw_log[i].x + draw_log[i].width = canvas_width - 30
        /\ draw_log[i].y + draw_log[i].height = canvas_height - 30
        /\ draw_log[i].x >= 0
        /\ draw_log[i].y >= 0

\* A pasted logo of the full clamped width, from a logo that had to shrink
C13_Witness ==
    /\ logo_image.kind = "image" /\ logo_image.width = 1000
    /\ \E i \in Pastes : draw_log[i].width = logo_max_width /\ draw_log[i].height > 1

---------------------------------------------------------------------------
(* Logo failures and aborted compositions: properties *)

\* The supplied bytes do not decode, or a side of the computed size is below 1
LogoFails(data) ==
    \/ data.kind = "garbage"
    \/ /\ data.kind = "image"
       /\ LET new == LogoNewSize(data.width, data.height)
          IN  new.width < 1 \/ new.height < 1

ThumbnailWritten == \E f \in files : f.name = Filename /\ f.size = jpeg_data.size

\* C14: when decoding or resizing the supplied logo fails, _process_logo
\* yields None, nothing is pasted, and compose_thumbnail does not raise: its
\* remaining steps can be taken and it has written the thumbnail when it
\* returns.
C14_LogoFailureSwallowed ==
    (LogoFails(logo_image) /\ logo # NotCalled) =>
        /\ logo = None
        /\ Pastes = {}
        /\ pc \in {"encode", "write", "returned"}
        /\ pc # "returned" => ENABLED (ComposeEncode \/ ComposeWrite)
        /\ pc = "returned" => ThumbnailWritten

\* A call that returned although the logo's computed height was 0
C14_Witness ==
    /\ pc = "returned"
    /\ logo_image = LogoImage(1000, 2)
    /\ logo = None
    /\ ThumbnailWritten

\* C15: a call that raises has created or modified no file; the files change
\* only in the last step, after the encoding is there.
C15_NoFileOnFailure ==
    /\ [](pc = "raised" => files \in OldFileSets)
    /\ [][files' # files =>
            (pc = "write" /\ pc' = "returned" /\ jpeg_data.status = "returned")]_vars

\* A title with no words: a font is found, the line list is empty, the call
\* raises and the earlier file of the same name is untouched
C15_Witness ==
    /\ pc = "raised"
    /\ layout.status = "returned"
    /\ layout.font # None
    /\ layout.lines = <<>>
    /\ files # {}

---------------------------------------------------------------------------
(* JPEG size budget: properties *)

Encoded == pc \in {"write", "returned"} /\ jpeg_data.status = "returned"

\* C16: whenever some quality from the floor to the start, the floor included,
\* encodes within max_size_bytes, the returned encoding is within it.
C16_MeetsBudgetWhenPossible ==
    (Encoded /\ \E q \in jpeg_quality_min .. jpeg_quality_start :
                    EncodedSize(q) <= max_file_size_bytes)
        => jpeg_data.size <= max_file_size_bytes

\* C17: when no tried quality meets max_size_bytes, the returned bytes are
\* the encoding at jpeg_quality_min.
C17_FallsBackToFloor ==
    (Encoded /\ jpeg_data.size > max_file_size_bytes)
        => jpeg_data.quality = jpeg_quality_min

\* C18: when every tried quality yields more than the ceiling, the encoding
\* is written and the generate request answers with a thumbnail response.
C18_UnmetBudgetSucceeds ==
    (response # NotCalled /\ pc = "returned" /\ jpeg_data.size > max_file_size_bytes)
        => (ThumbnailWritten /\ response.status = 200)

---------------------------------------------------------------------------
(* Concurrent requests and repeated calls: properties *)

Started(r) == requests[r].pc # "idle"

\* C19: any two requests have different output paths, so the data directory
\* holds one file for each request that has written.
C19_DistinctOutputFiles ==
    /\ \A r1 \in DOMAIN requests, r2 \in DOMAIN requests :
           (r1 # r2 /\ Started(r1) /\ Started(r2))
               => requests[r1].request_id # requests[r2].request_id
    /\ Cardinality(files) = Cardinality({r \in DOMAIN requests : requests[r].pc = "done"})

---------------------------------------------------------------------------
(* JPEG quality search: properties *)

DirectlyEncoded == pc = "idle" /\ jpeg_data # NotCalled

\* C21: the call makes at least one and at most floor((start - floor) / 5) + 1
\* encodes, at the qualities start, start - 5, start - 10, ... each within
\* [floor, start]; every quality before the last was above the ceiling, and
\* the result is the last encode, hence the highest tried quality that meets
\* the ceiling when one does.
C21_QualitySteps ==
    DirectlyEncoded =>
        LET start == self.settings.jpeg_quality_start
            floor == self.settings.jpeg_quality_min
            ceiling == self.settings.max_file_size_bytes
            n == Len(jpeg_data.tried)
        IN  /\ jpeg_data.status = "returned"
            /\ jpeg_data.encodes = n
            /\ n >= 1
            /\ n <= (start - floor) \div 5 + 1
            /\ \A i \in 1 .. n :
                   /\ jpeg_data.tried[i] = start - 5 * (i - 1)
                   /\ jpeg_data.tried[i] >= floor
                   /\ jpeg_data.tried[i] <= start
            /\ \A i \in 1 .. n - 1 : EncodedSize(jpeg_data.tried[i]) > ceiling
            /\ jpeg_data.quality = jpeg_data.tried[n]
            /\ jpeg_data.size = EncodedSize(jpeg_data.quality)
            /\ (\E i \in 1 .. n : EncodedSize(jpeg_data.tried[i]) <= ceiling)
                    => jpeg_data.size <= ceiling

\* A call that met the ceiling at its third encode, two steps below the start
C21_Witness ==
    /\ DirectlyEncoded
    /\ jpeg_data.tried = <<92, 87, 82>>
    /\ jpeg_data.size <= self.settings.max_file_size_bytes
    /\ self.settings.jpeg_quality_min = 76

---------------------------------------------------------------------------
(* Order of the composition stages: properties *)

Rectangles == {i \in 1 .. Len(draw_log) : draw_log[i].op = "rectangle"}
TextDraws == {i \in 1 .. Len(draw_log) : draw_log[i].op = "text"}
IsFill(d) == d.op = "text" /\ d.fill = "fill_color"
Fills == SelectSeq(draw_log, IsFill)
IsPrefix(a, b) == Len(a) <= Len(b) /\ a = SubSeq(b, 1, Len(a))
LogoPasted == logo_image # NoLogo /\ logo # NotCalled /\ logo # None

StagesOrdered ==
    /\ layout # NotCalled => resized.status = "returned"
    /\ draw_log # <<>> =>
           /\ layout.status = "returned"
           /\ ~LayoutFailed(layout.font, layout.lines)
           /\ Rectangles = {1}
           /\ IsPrefix([i \in 1 .. Len(Fills) |-> Fills[i].line], layout.lines)
    /\ Cardinality(Pastes) <= 1
    /\ \A i \in TextDraws, j \in Pastes : i < j
    /\ Pastes # {} => (Len(Fills) = Len(layout.lines) /\ LogoPasted)
    /\ jpeg_data # NotCalled =>
           /\ Len(Fills) = Len(layout.lines)
           /\ Pastes # {} <=> LogoPasted
    /\ files \notin OldFileSets => (jpeg_data.status = "returned" /\ pc = "returned")
    /\ pc = "returned" => ThumbnailWritten

StagesOnce ==
    /\ resized # NotCalled => resized' = resized
    /\ layout # NotCalled => layout' = layout
    /\ logo # NotCalled => logo' = logo
    /\ jpeg_data # NotCalled => jpeg_data' = jpeg_data
    /\ files \notin OldFileSets => files' = files
    /\ IsPrefix(draw_log, draw_log')

\* C22: the stages of a call happen in the order normalise, layout, accent
\* bar, text lines in list order, logo (only when supplied and processed),
\* encode, write, each at most once; the bar precedes every text draw and the
\* write follows the encoding.
C22_StagesInOrder == []StagesOrdered /\ [][StagesOnce]_vars

\* A returned call that drew several lines and pasted a logo
C22_Witness ==
    /\ pc = "returned"
    /\ Len(layout.lines) >= 2
    /\ Len(Fills) = Len(layout.lines)
    /\ Pastes # {}

---------------------------------------------------------------------------
(* Vertical placement of the text block and the accent bar: properties *)

TextPlaced == pc # "idle" /\ locals # NotCalled

\* C23: the drawn block, line count times the line advance int(font_size * 1.2),
\* is within the text area height, so text_start_y >= text_margin_top and the
\* last line starts no lower than 660 minus one line advance.
C23_TextBlockFits ==
    TextPlaced =>
        LET count == Len(layout.lines)
        IN  /\ count * locals.line_height <= text_area_height
            /\ locals.text_start_y >= text_margin_top
            /\ locals.text_start_y + (count - 1) * locals.line_height
                   <= canvas_height - text_margin_top - locals.line_height

\* C24: the accent bar is the rectangle from (40, text_start_y - 25) to
\* (240, text_start_y - 17), above the first line and its stroke, and inside
\* the canvas.
C24_AccentBarPlaced ==
    \A i \in Rectangles :
        /\ draw_log[i].box = <<40, locals.text_start_y - 25, 240, locals.text_start_y - 17>>
        /\ draw_log[i].box[4] < locals.text_start_y - default_stroke_width
        /\ draw_log[i].box[2] >= 0
        /\ draw_log[i].box[4] <= canvas_height
        /\ draw_log[i].box[3] <= canvas_width

---------------------------------------------------------------------------
(* Font load failures: properties *)

\* C25: a load failure at a probed size does not abort the search, which ends
\* within 7 probes; a size that failed to load is never the chosen one; and
\* when some size in [20,120] both loads and fits, a size that loads and fits
\* is returned.
C25_LoadFailureTolerated ==
    (LayoutReturned /\ pc = "idle") =>
        /\ layout.probes <= 7
        /\ layout.font # None =>
               (layout.font.size = layout.size /\ layout.size \notin unloadable)
        /\ (\E s \in Sizes \ unloadable : Feasible(s)) =>
               /\ layout.font # None
               /\ layout.size \notin unloadable
               /\ Feasible(layout.size)

NothingLoads == Sizes \subseteq unloadable

\* C26: when no font loads at any probed size, the search returns no font and
\* compose_thumbnail raises to its caller, having drawn nothing and written
\* no file.
C26_NoFontIsFatal ==
    (NothingLoads /\ LayoutReturned /\ pc # "idle") =>
        /\ layout.font = None
        /\ pc = "raised"
        /\ draw_log = <<>>
        /\ files \in OldFileSets
        /\ response # NotCalled => response.status = 500

\* A request for a two-word title that failed because no font loaded
C26_Witness ==
    /\ NothingLoads
    /\ text = <<"i", " ", "W">>
    /\ resized.status = "returned"
    /\ LayoutReturned
    /\ pc = "raised"
    /\ response # NotCalled

---------------------------------------------------------------------------
(* Background generation: properties *)

AttemptFailures == {"request_failed", "download_failed", "invalid"}

AttemptsInOrder ==
    generation.pc # "idle" =>
        LET g == generation
            n == Len(g.attempts)
            sizes == SizeAttempts(g.configured)
        IN  /\ n <= 3
            /\ sizes = <<g.configured, "1536x864", "1024x1024">>
            /\ \A i \in 1 .. n : g.attempts[i].size = sizes[i]
            /\ \A i \in 1 .. n - 1 : g.attempts[i].outcome \in AttemptFailures
            /\ g.pc = "returned" =>
                   /\ n >= 1
                   /\ g.attempts[n].outcome = "ok"
                   /\ g.attempts[n].data.width >= 512
                   /\ g.attempts[n].data.height >= 512
                   /\ g.result = [status |-> "ok", width |-> g.attempts[n].data.width,
                                  height |-> g.attempts[n].data.height]
            /\ n >= 1 /\ g.attempts[n].outcome = "ok" => g.pc = "returned"
            /\ (g.pc = "raised" /\ Len(Strip(g.topic)) >= 3) =>
                   /\ n = 3
                   /\ g.attempts[n].outcome \in AttemptFailures
            /\ (n = 3 /\ g.attempts[n].outcome \in AttemptFailures) => g.pc = "raised"
            /\ Len(Strip(g.topic)) < 3 => (g.pc = "raised" /\ n = 0)

GenerationOver ==
    generation.pc \in {"returned", "raised"} => generation' = generation

\* C27: generate_background tries at most the three sizes [configured,
\* 1536x864, 1024x1024] in this order, returns the image of the first attempt
\* whose request, download and validation (both sides at least 512) succeed
\* and attempts nothing after it, raises once all three failed, and raises
\* before any request when the stripped topic has fewer than 3 characters.
C27_AttemptsInOrder == []AttemptsInOrder /\ [][GenerationOver]_vars

C27_Witness ==
    /\ generation.pc = "returned"
    /\ Len(generation.attempts) = 3
    /\ generation.configured = "1792x1024"
    /\ generation.attempts[1].outcome = "request_failed"
    /\ generation.attempts[2].outcome = "invalid"

---------------------------------------------------------------------------
(* Request steps: properties *)

LogoAccepted(u) ==
    \/ u = None
    \/ /\ u.content_type \in {"image/png", "image/jpeg"}
       /\ u.length <= 2 * 1024 * 1024

Answered(code) == response # NotCalled /\ response.status = code

StepsOrdered ==
    route.pc # "idle" =>
        /\ generation.pc # "idle" => LogoAccepted(route.logo)
        /\ (~LogoAccepted(route.logo) /\ route.pc # "logo") =>
               /\ Answered(400)
               /\ generation.pc = "idle" /\ pc = "idle" /\ files = {}
        /\ pc # "idle" =>
               /\ generation.pc = "returned"
               /\ background = [width |-> generation.result.width,
                                height |-> generation.result.height]
        /\ generation.pc = "raised" =>
               /\ pc = "idle" /\ files = {}
               /\ response # NotCalled => response.status = 502
        /\ (pc = "raised" /\ response # NotCalled) => response.status = 500
        /\ response # NotCalled =>
               \/ response.status = 400 /\ ~LogoAccepted(route.logo)
               \/ response.status = 502 /\ generation.pc = "raised"
               \/ response.status \in {200, 500} /\ pc \in {"returned", "raised"}

StepsFollow ==
    /\ (generation.pc = "idle" /\ generation'.pc # "idle") =>
           (route.pc = "background" /\ LogoAccepted(route.logo))
    /\ (pc = "idle" /\ pc' # "idle") => generation.pc = "returned"
    /\ (response = NotCalled /\ response' # NotCalled /\ generation.pc = "raised") =>
           (response'.status = 502 /\ files' = {})

\* C28: generate_thumbnail requests the background only after the optional
\* logo passed validation (a wrong content type or more than 2 MiB answers
\* 400 with no background request), starts composing only after the
\* background was generated (a background failure answers 502 and writes no
\* file), and answers 500 when composing fails.
C28_StepsInOrder == []StepsOrdered /\ [][StepsFollow]_vars

C28_Witness ==
    /\ route.pc = "compose"
    /\ route.logo # None
    /\ route.logo.length = 2 * 1024 * 1024
    /\ Len(generation.attempts) = 3
    /\ pc = "raised"
    /\ response # NotCalled
    /\ response.status = 500

---------------------------------------------------------------------------
(* Listing: properties *)

Listed == listing # NotCalled

AtMost(limit, most) ==
    LET clamped == IF limit < most THEN limit ELSE most
    IN  IF clamped < 0 THEN 0 ELSE clamped

\* C29: for every integer limit, zero and negative ones included, and any
\* directory content, list_thumbnails returns at most min(limit,
\* max_thumbnails_list) items (none when that is not positive), newest first
\* by modification time, and total_count is the number of files matching
\* *_thumbnail.jpg.
C29_ListBounded ==
    Listed =>
        /\ Len(listing.thumbnails) <= AtMost(listing.limit, listing.max_thumbnails_list)
        /\ \A i, j \in 1 .. Len(listing.thumbnails) :
               i < j => listing.thumbnails[i].created_at >= listing.thumbnails[j].created_at
        /\ listing.total_count =
               Cardinality({f \in files : f.name[Len(f.name)] = "_thumbnail.jpg"})

---------------------------------------------------------------------------
(* Round trip generate -> serve: properties *)

Succeeded == response # NotCalled /\ response # NoRequest /\ response.status = 200

Fetched == served # NotCalled /\ Succeeded /\ served.url = response.url

====
